---- MODULE Spec2Model ----
(***************************************************************************)
(* Model of spec-route-experiment/mock-vllm.py: a FastAPI application with *)
(* three routes (GET /health, POST /v1/chat/completions, POST /restart), a *)
(* module-level liveness flag `status`, and a `kill` function that sends   *)
(* SIGINT to the process group of the service.                             *)
(*                                                                         *)
(* A request goes through the stages                                       *)
(*   "received"   accepted by the transport, not yet dispatched            *)
(*   "responding" the route's handler (or the body validation) has         *)
(*                returned a response, not yet written                     *)
(*   "sent"       the response has been handed off to the transport        *)
(*   "done"       the background tasks attached to the response have run   *)
(* Requests on different connections interleave freely.                    *)
(***************************************************************************)
EXTENDS Integers, Sequences, FiniteSets, TLC

\* Number of requests the clients send in one run of the service.
MaxReq == 2
\* time.time() is read as a second count in 0..MaxTime.
MaxTime == 1

VARIABLES
    status,     \* mock-vllm.py:14, the module-level liveness flag
    reqs,       \* the requests accepted so far, in order of arrival
    signals,    \* the signals sent to the service's process group, in order
    proc        \* "running" or "exited": the service process (uvicorn.run)

vars == <<status, reqs, signals, proc>>

---------------------------------------------------------------------------
\* JSON values of a request body.

Str(s) == [t |-> "str", s |-> s]
Null == [t |-> "null"]
Arr(items) == [t |-> "arr", items |-> items]
Obj(fields) == [t |-> "obj", fields |-> fields]
NoBody == [t |-> "none"]

IsStr(v) == v.t = "str"
IsArr(v) == v.t = "arr"
IsObj(v) == v.t = "obj"
Has(v, key) == IsObj(v) /\ key \in DOMAIN v.fields

\* class ChatMessage(BaseModel): role: str; content: str
ChatMessage(v) ==
    /\ Has(v, "role") /\ IsStr(v.fields.role)
    /\ Has(v, "content") /\ IsStr(v.fields.content)

\* A plausible slip: `messages` declared Optional / not checked.
ChatRequest_model_only(v) ==
    Has(v, "model") /\ IsStr(v.fields.model)

\* class ChatRequest(BaseModel): model: str; messages: List[ChatMessage]
\* TRUE iff the body validates as a ChatRequest.
ChatRequest(v) ==
    /\ Has(v, "model") /\ IsStr(v.fields.model)
    /\ Has(v, "messages") /\ IsArr(v.fields.messages)
    /\ \A i \in 1..Len(v.fields.messages.items) :
          ChatMessage(v.fields.messages.items[i])

\* The ChatRequest object the handler receives as `req`.  A field that is
\* absent or is no string is carried as "<unset>": the handler is reached with
\* such an object only if validation lets the body through.
Field(v, key) ==
    IF Has(v, key) /\ IsStr(v.fields[key]) THEN v.fields[key].s ELSE "<unset>"

ParseMessages(v) ==
    IF Has(v, "messages") /\ IsArr(v.fields.messages)
    THEN [i \in 1..Len(v.fields.messages.items) |->
            [role |-> Field(v.fields.messages.items[i], "role"),
             content |-> Field(v.fields.messages.items[i], "content")]]
    ELSE <<>>

ParseChatRequest(v) ==
    [model |-> Field(v, "model"), messages |-> ParseMessages(v)]

\* The bodies the clients post to /v1/chat/completions.
UserHi == Obj([role |-> Str("user"), content |-> Str("hi")])
ChatBodies ==
    { Obj([model |-> Str("m1"), messages |-> Arr(<<>>)]),
      Obj([model |-> Str("m2"), messages |-> Arr(<<UserHi>>)]),
      Obj([messages |-> Arr(<<UserHi>>)]),
      Obj([model |-> Str("m1")]),
      Obj([model |-> Null, messages |-> Arr(<<>>)]),
      Obj([model |-> Str("m1"), messages |-> Str("hi")]),
      Obj([model |-> Str("m1"),
           messages |-> Arr(<<Obj([role |-> Str("user")])>>)]) }

Routes == {"health", "chat", "restart"}

Bodies(route) == IF route = "chat" THEN ChatBodies ELSE {NoBody}

---------------------------------------------------------------------------
\* Responses.

NoResponse == [code |-> 0]
JSONResponse(content) == [code |-> 200, body |-> content]
\* FastAPI's answer to a body that fails validation (RequestValidationError).
ValidationError == [code |-> 422, body |-> [detail |-> "validation error"]]

\* A plausible slip: the conditional the wrong way round.
health_inverted == [status |-> IF status THEN "not ok" ELSE "ok"]

\* def health(): return {"status": "ok" if status else "not ok"}
health == [status |-> IF status THEN "ok" ELSE "not ok"]

\* A plausible slip: a hard-coded model name instead of req.model.
chat_completions_fixed_model(req, t) ==
    [id |-> "mock-id", object |-> "chat.completion", created |-> t,
     model |-> "mock-model",
     choices |-> << [index |-> 0,
                     message |-> [role |-> "assistant",
                                  content |-> "Hello! This is a mock reply."],
                     finish_reason |-> "stop"] >>]

\* async def chat_completions(req: ChatRequest); t is int(time.time()).
chat_completions(req, t) ==
    [id |-> "mock-id", object |-> "chat.completion", created |-> t,
     model |-> req.model,
     choices |-> << [index |-> 0,
                     message |-> [role |-> "assistant",
                                  content |-> "Hello! This is a mock reply."],
                     finish_reason |-> "stop"] >>]

\* background_tasks.add_task(f)
add_task(background_tasks, f) == Append(background_tasks, f)

\* A plausible slip: the task is never scheduled.
restart_no_task(background_tasks) ==
    [tasks |-> background_tasks, content |-> [status |-> "restarting"]]

\* def restart(background_tasks): the tasks it leaves scheduled and the
\* content it returns.
restart(background_tasks) ==
    [tasks |-> add_task(background_tasks, "kill"),
     content |-> [status |-> "restarting"]]

\* A plausible slip: signal 0 (an existence check) instead of SIGINT.
kill_signal_0 == Append(signals, "0")

\* def kill(): os.killpg(os.getpgid(os.getpid()), signal.SIGINT); the value is
\* the signals the process group has been sent after the call.
kill == Append(signals, "SIGINT")

\* A plausible slip: /restart declared with a request-body parameter.
RequestModel_restart_too(route) ==
    IF route \in {"chat", "restart"} THEN "ChatRequest" ELSE "none"

\* The request-body model the route's handler declares as a parameter.
RequestModel(route) == IF route = "chat" THEN "ChatRequest" ELSE "none"

---------------------------------------------------------------------------
\* State.

\* A request as it arrives; `late` tells whether a restart response had been
\* handed off before it arrived.
NewRequest(route, body, late) ==
    [route |-> route, body |-> body, stage |-> "received",
     resp |-> NoResponse,
     tasks |-> <<>>,          \* the BackgroundTasks of the request
     handler |-> "none",      \* the handler function whose body has run
     kills |-> 0,             \* runs of kill() made on behalf of the request
     afterRestart |-> late]

Init ==
    /\ status = TRUE
    /\ reqs = <<>>
    /\ signals = <<>>
    /\ proc = "running"

Ids == 1..Len(reqs)

HandedOff(r) == reqs[r].stage \in {"sent", "done"}

RestartAnswered == \E q \in Ids : reqs[q].route = "restart" /\ HandedOff(q)

\* reqs after the handler `name` has returned `resp` for request r, leaving
\* the background tasks `bg`.
Handled(r, name, resp, bg) ==
    [reqs EXCEPT ![r].stage = "responding", ![r].resp = resp,
                 ![r].tasks = bg, ![r].handler = name]

Dispatchable(r, route) ==
    /\ proc = "running"
    /\ reqs[r].stage = "received"
    /\ reqs[r].route = route

---------------------------------------------------------------------------
\* Actions.

\* A client's request reaches the listening service.
Accept ==
    /\ proc = "running"
    /\ Len(reqs) < MaxReq
    /\ \E route \in Routes : \E body \in Bodies(route) :
          reqs' = Append(reqs, NewRequest(route, body, RestartAnswered))
    /\ UNCHANGED <<status, signals, proc>>

\* The validation layer refuses the body: the handler is not called.
RejectBody(r) ==
    /\ proc = "running"
    /\ reqs[r].stage = "received"
    /\ RequestModel(reqs[r].route) = "ChatRequest"
    /\ ~ChatRequest(reqs[r].body)
    /\ reqs' = Handled(r, "none", ValidationError, <<>>)
    /\ UNCHANGED <<status, signals, proc>>

BodyAccepted(r) ==
    RequestModel(reqs[r].route) = "ChatRequest" => ChatRequest(reqs[r].body)

\* GET /health
ServeHealth(r) ==
    /\ Dispatchable(r, "health")
    /\ BodyAccepted(r)
    /\ reqs' = Handled(r, "health", JSONResponse(health), <<>>)
    /\ UNCHANGED <<status, signals, proc>>

\* A plausible slip: the chat handler also schedules the termination.
ServeChat_schedules_kill(r) ==
    /\ Dispatchable(r, "chat")
    /\ BodyAccepted(r)
    /\ \E t \in 0..MaxTime :
          reqs' = Handled(r, "chat_completions",
                          JSONResponse(chat_completions(
                              ParseChatRequest(reqs[r].body), t)),
                          add_task(<<>>, "kill"))
    /\ UNCHANGED <<status, signals, proc>>

\* POST /v1/chat/completions with a body that validated
ServeChat(r) ==
    /\ Dispatchable(r, "chat")
    /\ BodyAccepted(r)
    /\ \E t \in 0..MaxTime :
          reqs' = Handled(r, "chat_completions",
                          JSONResponse(chat_completions(
                              ParseChatRequest(reqs[r].body), t)),
                          <<>>)
    /\ UNCHANGED <<status, signals, proc>>

\* A plausible slip: the handler calls kill() itself instead of scheduling it.
ServeRestart_calls_kill(r) ==
    /\ Dispatchable(r, "restart")
    /\ BodyAccepted(r)
    /\ reqs' = [Handled(r, "restart", JSONResponse(restart(<<>>).content), <<>>)
                  EXCEPT ![r].kills = @ + 1]
    /\ signals' = kill
    /\ UNCHANGED <<status, proc>>

\* A plausible slip: the handler marks the service as draining.
ServeRestart_clears_status(r) ==
    /\ Dispatchable(r, "restart")
    /\ BodyAccepted(r)
    /\ reqs' = Handled(r, "restart", JSONResponse(restart(<<>>).content),
                       restart(<<>>).tasks)
    /\ status' = FALSE
    /\ UNCHANGED <<signals, proc>>

\* POST /restart
ServeRestart(r) ==
    /\ Dispatchable(r, "restart")
    /\ BodyAccepted(r)
    /\ reqs' = Handled(r, "restart", JSONResponse(restart(<<>>).content),
                       restart(<<>>).tasks)
    /\ UNCHANGED <<status, signals, proc>>

\* A plausible slip: a response written by a process that has exited.
SendResponse_unguarded(r) ==
    /\ reqs[r].stage = "responding"
    /\ reqs' = [reqs EXCEPT ![r].stage = "sent"]
    /\ UNCHANGED <<status, signals, proc>>

\* The response of request r is handed off to the transport.
SendResponse(r) ==
    /\ proc = "running"
    /\ reqs[r].stage = "responding"
    /\ reqs' = [reqs EXCEPT ![r].stage = "sent"]
    /\ UNCHANGED <<status, signals, proc>>

\* The background tasks of request r run once its response has been handed
\* off; the only task this application schedules is kill.
RunBackground(r) ==
    /\ proc = "running"
    /\ reqs[r].stage = "sent"
    /\ reqs[r].tasks # <<>>
    /\ Head(reqs[r].tasks) = "kill"
    /\ signals' = kill
    /\ reqs' = [reqs EXCEPT ![r].tasks = Tail(@), ![r].kills = @ + 1,
                            ![r].stage = IF Tail(reqs[r].tasks) = <<>>
                                         THEN "done" ELSE @]
    /\ UNCHANGED <<status, proc>>

\* SIGINT takes effect: the server and its reloader (same process group)
\* stop; requests still in flight get no answer.
Exit ==
    /\ proc = "running"
    /\ \E i \in 1..Len(signals) : signals[i] = "SIGINT"
    /\ proc' = "exited"
    /\ UNCHANGED <<status, reqs, signals>>

Next ==
    \/ Accept
    \/ \E r \in Ids : RejectBody(r)
    \/ \E r \in Ids : ServeHealth(r)
    \/ \E r \in Ids : ServeChat(r)
    \/ \E r \in Ids : ServeRestart(r)
    \/ \E r \in Ids : SendResponse(r)
    \/ \E r \in Ids : RunBackground(r)
    \/ Exit

Spec == Init /\ [][Next]_vars

\* The event loop runs every dispatched handler, writes every response and
\* runs every background task; a signal sent is delivered.  Clients are not
\* obliged to send requests.
Fairness ==
    /\ \A r \in 1..MaxReq : WF_vars(r \in Ids /\ RejectBody(r))
    /\ \A r \in 1..MaxReq : WF_vars(r \in Ids /\ ServeHealth(r))
    /\ \A r \in 1..MaxReq : WF_vars(r \in Ids /\ ServeChat(r))
    /\ \A r \in 1..MaxReq : WF_vars(r \in Ids /\ ServeRestart(r))
    /\ \A r \in 1..MaxReq : WF_vars(r \in Ids /\ SendResponse(r))
    /\ \A r \in 1..MaxReq : WF_vars(r \in Ids /\ RunBackground(r))
    /\ WF_vars(Exit)

FairSpec == Spec /\ Fairness

---------------------------------------------------------------------------
\* Properties.

Answered(r) == reqs[r].stage # "received"

\* The body lacks `model` or `messages`, or gives one of them (or a field of
\* a message) a value of the wrong type.
Malformed(v) ==
    \/ ~Has(v, "model")
    \/ ~Has(v, "messages")
    \/ Has(v, "model") /\ v.fields.model.t # "str"
    \/ Has(v, "messages") /\ v.fields.messages.t # "arr"
    \/ /\ Has(v, "messages") /\ v.fields.messages.t = "arr"
       /\ \E i \in 1..Len(v.fields.messages.items) :
            LET m == v.fields.messages.items[i] IN
               \/ ~Has(m, "role") \/ ~Has(m, "content")
               \/ Has(m, "role") /\ m.fields.role.t # "str"
               \/ Has(m, "content") /\ m.fields.content.t # "str"

OkResponse == [code |-> 200, body |-> [status |-> "ok"]]

\* C1: while the service runs, GET /health is answered 200 {"status": "ok"}:
\* every health request that has got its response got exactly that one, and
\* that is what the handler would return in the current state; "not ok" is
\* never produced.
C1_HealthAlwaysOk ==
    /\ proc = "running" => JSONResponse(health) = OkResponse
    /\ \A r \in Ids :
          reqs[r].route = "health" /\ Answered(r) => reqs[r].resp = OkResponse

\* A health request that arrived after a restart response was answered.
C1_Witness ==
    \E r \in Ids :
        /\ reqs[r].route = "health" /\ HandedOff(r) /\ reqs[r].afterRestart
        /\ reqs[r].resp = OkResponse

\* C2: a chat-completion request with a structurally valid body is answered
\* 200 with the request's model echoed and exactly one choice: index 0,
\* finish_reason "stop", role "assistant", content "Hello! This is a mock
\* reply.", whatever the messages are.
C2_ChatEchoesModel ==
    \A r \in Ids :
        reqs[r].route = "chat" /\ ~Malformed(reqs[r].body) /\ Answered(r) =>
            /\ reqs[r].resp.code = 200
            /\ reqs[r].resp.body.model = reqs[r].body.fields.model.s
            /\ Len(reqs[r].resp.body.choices) = 1
            /\ reqs[r].resp.body.choices[1] =
                  [index |-> 0,
                   message |-> [role |-> "assistant",
                                content |-> "Hello! This is a mock reply."],
                   finish_reason |-> "stop"]

\* Two valid chat requests answered, with different models and with message
\* lists of different lengths.
C2_Witness ==
    \E r, q \in Ids :
        /\ reqs[r].route = "chat" /\ reqs[q].route = "chat"
        /\ HandedOff(r) /\ HandedOff(q)
        /\ ~Malformed(reqs[r].body) /\ ~Malformed(reqs[q].body)
        /\ reqs[r].resp.body.model = "m1" /\ reqs[q].resp.body.model = "m2"
        /\ Len(reqs[r].body.fields.messages.items) = 0
        /\ Len(reqs[q].body.fields.messages.items) = 1

\* C3: a chat-completion request whose body lacks a required field or gives
\* it a wrong type is answered with a 4xx response by the validation layer:
\* the chat_completions handler is not run and the response carries no
\* completion payload.
C3_MalformedRejected ==
    \A r \in Ids :
        reqs[r].route = "chat" /\ Malformed(reqs[r].body) /\ Answered(r) =>
            /\ reqs[r].resp.code \in 400..499
            /\ reqs[r].handler = "none"
            /\ "choices" \notin DOMAIN reqs[r].resp.body

\* A request without `messages` and a request with a mistyped `model`, both
\* refused.
C3_Witness ==
    \E r, q \in Ids :
        /\ reqs[r].route = "chat" /\ reqs[q].route = "chat"
        /\ HandedOff(r) /\ HandedOff(q)
        /\ ~Has(reqs[r].body, "messages")
        /\ Has(reqs[q].body, "model") /\ reqs[q].body.fields.model.t = "null"
        /\ reqs[r].resp.code = 422 /\ reqs[q].resp.code = 422

\* C4: every restart request whose handler has returned has the response
\* 200 {"status": "restarting"} and exactly one termination action, scheduled
\* or already run; when the handler returns the action is scheduled and has
\* not run.
C4_RestartSchedulesOneKill ==
    \A r \in Ids :
        reqs[r].route = "restart" /\ Answered(r) =>
            /\ reqs[r].resp = [code |-> 200, body |-> [status |-> "restarting"]]
            /\ Len(reqs[r].tasks) + reqs[r].kills = 1
            /\ \A i \in 1..Len(reqs[r].tasks) : reqs[r].tasks[i] = "kill"
            /\ reqs[r].stage = "responding" =>
                  reqs[r].tasks = <<"kill">> /\ reqs[r].kills = 0

\* The restart handler has returned and no signal has been sent.
C4_Witness ==
    \E r \in Ids :
        /\ reqs[r].route = "restart" /\ reqs[r].stage = "responding"
        /\ reqs[r].tasks = <<"kill">>
        /\ signals = <<>>

\* C5: the kill action of a restart request has run only if the response of
\* that request has been handed off to the transport.
C5_KillAfterHandoff ==
    \A r \in Ids : reqs[r].kills > 0 => HandedOff(r)

\* The kill action of a restart request has run.
C5_Witness ==
    \E r \in Ids :
        reqs[r].route = "restart" /\ reqs[r].kills = 1 /\ reqs[r].stage = "done"

RestartAccepted == \E r \in Ids : reqs[r].route = "restart"

\* C6: once a restart request has been accepted the process eventually
\* exits; it exits only after kill has sent SIGINT; once exited it stays
\* exited and no request changes stage (none is accepted or answered).
C6_RestartLeadsToExit ==
    /\ RestartAccepted ~> (proc = "exited")
    /\ [](proc = "exited" =>
            \E r \in Ids : reqs[r].kills > 0 /\ reqs[r].route = "restart")
    /\ [][proc = "exited" => (proc' = "exited" /\ reqs' = reqs)]_vars

\* The process has exited with a request still unanswered.
C6_Witness ==
    /\ proc = "exited"
    /\ \E r \in Ids : reqs[r].stage \in {"received", "responding"}

C8_OnlyChatFails ==
    /\ \A r \in Ids :
          reqs[r].route \in {"health", "restart"} /\ Answered(r) =>
              reqs[r].resp.code = 200
    /\ \A r \in Ids : reqs[r].resp.code >= 400 => reqs[r].route = "chat"

\* A restart request answered 200 after a chat request was answered 422.
C8_Witness ==
    \E r, q \in Ids :
        /\ r < q
        /\ reqs[r].route = "chat" /\ HandedOff(r) /\ reqs[r].resp.code = 422
        /\ reqs[q].route = "restart" /\ HandedOff(q) /\ reqs[q].resp.code = 200

\* The response without its clock reading.
SansCreated(resp) ==
    IF resp.code = 200 /\ "created" \in DOMAIN resp.body
    THEN [resp EXCEPT !.body.created = 0] ELSE resp

\* C9: the liveness flag is true in every state, and a response depends on
\* the request alone: two answered requests with the same route and body have
\* the same response (the clock reading `created` apart), however they were
\* interleaved with other requests.
C9_FlagNeverWritten ==
    /\ status = TRUE
    /\ \A r, q \in Ids :
          /\ Answered(r) /\ Answered(q)
          /\ reqs[r].route = reqs[q].route /\ reqs[r].body = reqs[q].body
          => SansCreated(reqs[r].resp) = SansCreated(reqs[q].resp)

\* A restart has run its kill action, and a health request that arrived after
\* the restart response is answered.
C9_Witness ==
    \E r, q \in Ids :
        /\ reqs[r].route = "restart" /\ reqs[r].kills = 1
        /\ reqs[q].route = "health" /\ HandedOff(q) /\ reqs[q].afterRestart

\* C10: every signal sent is the one run of kill of a distinct restart
\* request whose handler has returned; health and chat requests schedule
\* nothing.
C10_KillOnlyFromRestart ==
    /\ Len(signals) = Cardinality({r \in Ids : reqs[r].kills = 1})
    /\ \A r \in Ids :
          /\ reqs[r].kills \in {0, 1}
          /\ reqs[r].kills = 1 =>
                reqs[r].route = "restart" /\ reqs[r].handler = "restart"
          /\ reqs[r].route # "restart" => reqs[r].tasks = <<>>

\* Two restart requests have each run kill.
C10_Witness ==
    /\ Len(signals) = 2
    /\ \A r \in Ids : reqs[r].route = "restart" /\ reqs[r].kills = 1

====
